---- MODULE Spec2Model ----
(***************************************************************************)
(* State-machine model of estimator/trainer/game/go.py: the GoGame         *)
(* environment (action codec, rolling history of occupancy planes, game    *)
(* lifecycle and scoring) on top of the pachi_py board engine.             *)
(*                                                                         *)
(* Conventions of the encoding:                                            *)
(*  - numpy arrays indexed from 0 along the last axis are sequences        *)
(*    indexed from 1: plane k of the code is element k+1 here;             *)
(*  - a plane is a function from <<i, j>> (row, column) to a cell value;   *)
(*  - komi and scores are held in half points (7.5 is 15, 5.5 is 11), so   *)
(*    that they stay integers; signs and comparisons with 0 are unchanged. *)
(***************************************************************************)
EXTENDS Integers, Sequences, FiniteSets, TLC

\* go.py:9
HISTORY == 8

\* pachi_py stone colours (go.py:78-79) and the engine's other cell values
BLACK == 1
WHITE == 2
S_NONE == 0
S_OFFBOARD == 3

\* the engine's sentinel coordinates (go.py:27, go.py:30)
PASS_COORD == -1
RESIGN_COORD == -2

\* ---- bounds of the model ----
\* accepted plies per game (since the last reset)
MaxPlies == 5
\* how far outside [0, board_size^2 + 1] the submitted actions go
OutOfRange == 1
\* largest board size the codec is run on
MaxCodecSize == 9
\* largest board size the komi is computed for
MaxKomiSize == 20
\* accepted plies per game in the long games, more than 2 * HISTORY
MaxLongPlies == 17
\* accepted plies per game in the runs with a deep copy
ClonePlies == 2
\* accepted plies per game in the runs over board sizes
SizedPlies == 2
\* the points (actions 0 .. NarrowPoints - 1) a caller plays on in the runs
\* that keep to few moves
NarrowPoints == 1

\* board sizes the environment is constructed with
BoardSizes == {2}
\* board sizes of the runs over board sizes: the sizes the komi changes at,
\* and a small one
SizedBoards == {5, 8, 9, 13, 14, 19, 20}

(***************************************************************************)
(* The board engine (pachi_py), as go.py uses it.  A board is a record     *)
(* with the stones on a grid that has one extra row and column on every    *)
(* side (go.py:11-14), the ko point, the last two moves and a move count.  *)
(***************************************************************************)
Stride(size) == size + 2

Coords(size) == 0 .. (Stride(size) * Stride(size) - 1)

Cells(size) == (0 .. size - 1) \X (0 .. size - 1)

ij_to_coord(size, i, j) == (i + 1) * Stride(size) + (j + 1)

coord_to_ij(size, c) == << (c \div Stride(size)) - 1, (c % Stride(size)) - 1 >>

OnBoard(size, c) ==
    /\ c \in Coords(size)
    /\ coord_to_ij(size, c) \in Cells(size)

stone_other(color) == IF color = BLACK THEN WHITE ELSE BLACK

NoMove == [coord |-> PASS_COORD, color |-> S_NONE]

CreateBoard(size) ==
    [ size       |-> size,
      stones     |-> [c \in Coords(size) |->
                        IF OnBoard(size, c) THEN S_NONE ELSE S_OFFBOARD],
      ko         |-> NoMove,
      last_move  |-> PASS_COORD,
      last_move2 |-> PASS_COORD,
      moves      |-> 0 ]

Neighbors(size, c) == { c - 1, c + 1, c - Stride(size), c + Stride(size) }

\* the points of c's colour connected to c: S grown from its newest points
RECURSIVE Grow(_, _, _, _, _)
Grow(stones, size, color, S, newest) ==
    LET N == { n \in UNION { Neighbors(size, c) : c \in newest } :
                 n \in Coords(size) /\ stones[n] = color } \ S
    IN  IF N = {} THEN S ELSE Grow(stones, size, color, S \cup N, N)

GroupAt(stones, size, c) == Grow(stones, size, stones[c], {c}, {c})

Borders(stones, size, G, color) ==
    \E c \in G : \E n \in Neighbors(size, c) : stones[n] = color

\* the board after a stone of `color` is put on c and the opponent's groups
\* left without liberties are taken off
Placed(b, c, color) ==
    LET put      == [b.stones EXCEPT ![c] = color]
        other    == stone_other(color)
        dead     == { n \in Neighbors(b.size, c) :
                        /\ put[n] = other
                        /\ ~Borders(put, b.size, GroupAt(put, b.size, n), S_NONE) }
        captured == UNION { GroupAt(put, b.size, n) : n \in dead }
    IN  [ stones   |-> [x \in Coords(b.size) |->
                          IF x \in captured THEN S_NONE ELSE put[x]],
          captured |-> captured ]

\* whether the engine accepts the move: pass and resign always; a stone only
\* on an empty point of the board that is not the ko point and that keeps a
\* liberty once captures are made
IsValidPlay(b, c, color) ==
    \/ c = PASS_COORD
    \/ c = RESIGN_COORD
    \/ /\ c \in Coords(b.size)
       /\ b.stones[c] = S_NONE
       /\ ~(b.ko.coord = c /\ b.ko.color = color)
       /\ LET after == Placed(b, c, color).stones
          IN  Borders(after, b.size, GroupAt(after, b.size, c), S_NONE)

\* board.play(coord, color): a new board; the receiver is not changed
Play(b, c, color) ==
    IF c \in {PASS_COORD, RESIGN_COORD}
    THEN [b EXCEPT !.ko = NoMove,
                   !.last_move2 = b.last_move,
                   !.last_move = c,
                   !.moves = b.moves + 1]
    ELSE LET p      == Placed(b, c, color)
             in_eye == \A n \in Neighbors(b.size, c) :
                          b.stones[n] \in {stone_other(color), S_OFFBOARD}
         IN  [b EXCEPT !.stones = p.stones,
                       !.ko = IF in_eye /\ Cardinality(p.captured) = 1
                              THEN [coord |-> CHOOSE x \in p.captured : TRUE,
                                    color |-> stone_other(color)]
                              ELSE NoMove,
                       !.last_move2 = b.last_move,
                       !.last_move = c,
                       !.moves = b.moves + 1]

\* board.is_terminal: two passes in a row, or a resignation
is_terminal(b) ==
    \/ b.moves > 1 /\ b.last_move = PASS_COORD /\ b.last_move2 = PASS_COORD
    \/ b.last_move = RESIGN_COORD

\* board.encode(): the planes of the black stones, the white stones and the
\* empty points
Encode(b) ==
    [ k \in 1 .. 3 |->
        [ ij \in Cells(b.size) |->
            LET s == b.stones[ij_to_coord(b.size, ij[1], ij[2])]
            IN  IF s = (IF k = 3 THEN S_NONE ELSE k) THEN 1 ELSE 0 ] ]

\* what the empty points `left` count: each empty region for the one colour
\* it reaches (white counts up, black down), for nobody when it reaches both
\* or none
RECURSIVE Territory(_, _)
Territory(b, left) ==
    IF left = {} THEN 0
    ELSE LET c  == CHOOSE x \in left : TRUE
             R  == GroupAt(b.stones, b.size, c)
             rb == Borders(b.stones, b.size, R, BLACK)
             rw == Borders(b.stones, b.size, R, WHITE)
             v  == IF rw /\ ~rb THEN Cardinality(R)
                   ELSE IF rb /\ ~rw THEN 0 - Cardinality(R)
                   ELSE 0
         IN  v + Territory(b, left \ R)

\* board.official_score: area of white minus area of black (no komi)
official_score(b) ==
    LET on == { c \in Coords(b.size) : OnBoard(b.size, c) }
    IN  Cardinality({ c \in on : b.stones[c] = WHITE })
          - Cardinality({ c \in on : b.stones[c] = BLACK })
          + Territory(b, { c \in on : b.stones[c] = S_NONE })

\* board.get_legal_coords(color, filter_suicides=True): the points the engine
\* accepts a stone of `color` on; whether the pass is listed with them is the
\* engine's choice, so both lists are possible
get_legal_coords(b, color) ==
    LET points == { c \in Coords(b.size) :
                      OnBoard(b.size, c) /\ IsValidPlay(b, c, color) }
    IN  { points, points \cup {PASS_COORD} }

(***************************************************************************)
(* go.py: the action codec and the tensor helpers                          *)
(***************************************************************************)
_pass_action(size) == size * size

_resign_action(size) == size * size + 1

\* as _coord_to_action, with row and column exchanged
_coord_to_action_swapped(b, c) ==
    IF c = PASS_COORD THEN _pass_action(b.size)
    ELSE IF c = RESIGN_COORD THEN _resign_action(b.size)
    ELSE LET ij == coord_to_ij(b.size, c)
         IN  ij[2] * b.size + ij[1]

_coord_to_action(b, c) ==
    IF c = PASS_COORD THEN _pass_action(b.size)
    ELSE IF c = RESIGN_COORD THEN _resign_action(b.size)
    ELSE LET ij == coord_to_ij(b.size, c)
         IN  ij[1] * b.size + ij[2]

_action_to_coord(b, a) ==
    IF a = _pass_action(b.size) THEN PASS_COORD
    ELSE IF a = _resign_action(b.size) THEN RESIGN_COORD
    ELSE ij_to_coord(b.size, a \div b.size, a % b.size)

\* what _act's call board.play(_action_to_coord(board, a), color) can end in:
\* "none" (the move is made) or the error raised.  An action outside
\* [0, size^2 + 1] makes _action_to_coord ask the engine for a row outside the
\* board: the engine either refuses the row/column pair or hands back a
\* coordinate of the margin, which it then rejects as a move
PlayOutcomes(b, a, color) ==
    IF \/ a \in {_pass_action(b.size), _resign_action(b.size)}
       \/ << a \div b.size, a % b.size >> \in Cells(b.size)
    THEN { IF IsValidPlay(b, _action_to_coord(b, a), color)
           THEN "none" ELSE "IllegalMove" }
    ELSE { "IllegalMove", "EngineError" }

\* np.zeros((size, size, depth)) and np.full((size, size, 1), v)
np_zeros(size, depth) == [k \in 1 .. depth |-> [ij \in Cells(size) |-> 0]]

np_full(size, v) == [ij \in Cells(size) |-> v]

\* as np_roll, the last plane put first without being taken off the end
np_roll_grow(h) == << h[Len(h)] >> \o h

\* as np_roll, rolled the other way: every plane moves one place forward
np_roll_back(h) == [k \in 1 .. Len(h) |-> h[(k % Len(h)) + 1]]

\* np.roll(h, 1, axis=-1): every plane moves one place back, the last one
\* comes first
np_roll(h) == [k \in 1 .. Len(h) |-> h[((k - 2) % Len(h)) + 1]]

_format_state(h, color, size) == h \o << np_full(size, color - 1) >>

(***************************************************************************)
(* go.py: class GoGame                                                     *)
(***************************************************************************)
VARIABLES
    board_size,     \* self.board_size
    player_color,   \* self.player_color
    komi,           \* self.komi, in half points
    board,          \* self.board
    done,           \* self.done
    history,        \* self.history
    state,          \* self.state
    configured,     \* the player_color argument __init__ was given
    plies,          \* moves accepted since the last reset
    last,           \* the last call: its name, argument, error and result
    codec,          \* a codec call on its own: size, action, coordinate
    plylog,         \* the plies accepted since the last reset: who moved and
                    \* the mover's stones right after the move
    ply_cap,        \* the bound on plies of this run
    twin            \* the other instance, once a deep copy is made

game_vars == << board_size, player_color, komi, board, done, history, state,
                configured, plies, last, plylog, ply_cap, twin >>

vars == << board_size, player_color, komi, board, done, history, state,
           configured, plies, last, codec, plylog, ply_cap, twin >>

Call(op, action, raised, pre_done, ret) ==
    [op |-> op, action |-> action, raised |-> raised,
     pre_done |-> pre_done, ret |-> ret]

\* the actions a caller submits: the valid range and OutOfRange beyond it on
\* either side
ActionInputs(size) == (0 - OutOfRange) .. (_resign_action(size) + OutOfRange)

\* as _komi, with the upper komi kept up to size 20
_komi_to_twenty(size) ==
    IF 14 <= size /\ size <= 20 THEN 15
    ELSE IF 9 <= size /\ size <= 13 THEN 11
    ELSE 0

\* _komi(): twice the komi, so that 15 stands for 7.5 and 11 for 5.5
_komi(size) ==
    IF 14 <= size /\ size <= 19 THEN 15
    ELSE IF 9 <= size /\ size <= 13 THEN 11
    ELSE 0

\* no deep copy made yet
NoTwin == [kind |-> "none", focus |-> "original"]

\* __init__(player_color, board_size), which ends in reset()
Constructed(color, size) ==
    /\ configured = color
    /\ board_size = size
    /\ player_color = color
    /\ komi = _komi(size)
    /\ board = CreateBoard(size)
    /\ done = FALSE
    /\ history = np_zeros(size, HISTORY * 2)
    /\ state = np_zeros(size, HISTORY * 2 + 1)
    /\ plies = 0
    /\ plylog = << >>
    /\ last = Call("reset", 0, "none", FALSE, state)
    /\ twin = NoTwin

GameInit ==
    /\ \E color \in {BLACK, WHITE}, size \in BoardSizes : Constructed(color, size)
    /\ ply_cap = MaxPlies

\* as reset, with the history buffer left as it is
reset_keeps_history ==
    /\ komi' = _komi(board_size)
    /\ board' = CreateBoard(board_size)
    /\ done' = FALSE
    /\ state' = np_zeros(board_size, HISTORY * 2 + 1)
    /\ plies' = 0
    /\ plylog' = << >>
    /\ last' = Call("reset", 0, "none", done, state')
    /\ UNCHANGED << history, board_size, player_color, configured, codec, ply_cap, twin >>

\* reset(), which returns self.state
reset ==
    /\ komi' = _komi(board_size)
    /\ board' = CreateBoard(board_size)
    /\ done' = FALSE
    /\ history' = np_zeros(board_size, HISTORY * 2)
    /\ state' = np_zeros(board_size, HISTORY * 2 + 1)
    /\ plies' = 0
    /\ plylog' = << >>
    /\ last' = Call("reset", 0, "none", done, state')
    /\ UNCHANGED << board_size, player_color, configured, codec, ply_cap, twin >>

\* as _act, without the switch of player of line 178
_act_no_switch(action) ==
    LET played == Play(board, _action_to_coord(board, action), player_color)
        planes == Encode(played)
        color  == player_color - 1
    IN  /\ board' = played
        /\ history' = [np_roll(history) EXCEPT ![1] = planes[color + 1]]
        /\ player_color' = player_color

\* as _act, with the opponent's plane written into the history
_act_opponent_plane(action) ==
    LET played == Play(board, _action_to_coord(board, action), player_color)
        planes == Encode(played)
        color  == stone_other(player_color) - 1
    IN  /\ board' = played
        /\ history' = [np_roll(history) EXCEPT ![1] = planes[color + 1]]
        /\ player_color' = stone_other(player_color)

\* _act(action) when board.play accepts the move
_act(action) ==
    LET played == Play(board, _action_to_coord(board, action), player_color)
        planes == Encode(played)
        color  == player_color - 1
    IN  /\ board' = played
        /\ history' = [np_roll(history) EXCEPT ![1] = planes[color + 1]]
        /\ player_color' = stone_other(player_color)

\* the plane of the stones of `color` on board b, read off the stones
OccupancyOf(b, color) ==
    [ ij \in Cells(b.size) |->
        IF b.stones[(ij[1] + 1) * (b.size + 2) + ij[2] + 1] = color THEN 1 ELSE 0 ]

\* as MoveMade, with done set by a rule of the environment: the game ends at
\* the first pass
MoveMadeOwnRule(action) ==
    /\ "none" \in PlayOutcomes(board, action, player_color)
    /\ plies < ply_cap
    /\ _act(action)
    /\ done' = (action >= _pass_action(board_size))
    /\ state' = _format_state(history', player_color', board_size)
    /\ plies' = plies + 1
    /\ plylog' = Append(plylog, [color |-> player_color,
                                 plane |-> OccupancyOf(board', player_color)])
    /\ last' = Call("play_action", action, "none", done, 0)
    /\ UNCHANGED << board_size, komi, configured, codec, ply_cap, twin >>

\* play_action, lines 109-111 and 115-118: _act returns
MoveMade(action) ==
    /\ "none" \in PlayOutcomes(board, action, player_color)
    /\ plies < ply_cap
    /\ _act(action)
    /\ done' = is_terminal(board')
    /\ state' = _format_state(history', player_color', board_size)
    /\ plies' = plies + 1
    /\ plylog' = Append(plylog, [color |-> player_color,
                                 plane |-> OccupancyOf(board', player_color)])
    /\ last' = Call("play_action", action, "none", done, 0)
    /\ UNCHANGED << board_size, komi, configured, codec, ply_cap, twin >>

\* as MoveRaised, with the history rolled before the engine is asked
MoveRaisedAfterRoll(action) ==
    /\ \E e \in PlayOutcomes(board, action, player_color) \ {"none"} :
          last' = Call("play_action", action, e, done, 0)
    /\ history' = np_roll(history)
    /\ UNCHANGED << board_size, player_color, komi, board, done, state,
                    configured, plies, codec, plylog, ply_cap,
                    twin >>

\* play_action, lines 109-113: board.play raises inside _act, before any
\* assignment, and the error leaves play_action
MoveRaised(action) ==
    /\ \E e \in PlayOutcomes(board, action, player_color) \ {"none"} :
          last' = Call("play_action", action, e, done, 0)
    /\ UNCHANGED << board_size, player_color, komi, board, done, history,
                    state, configured, plies, codec, plylog, ply_cap, twin >>

\* play_action, lines 109 and 115-118: the game is over, _act is skipped
AfterEnd(action) ==
    /\ done' = is_terminal(board)
    /\ state' = _format_state(history, player_color, board_size)
    /\ last' = Call("play_action", action, "none", done, 0)
    /\ UNCHANGED << board_size, player_color, komi, board, history,
                    configured, plies, codec, plylog, ply_cap,
                    twin >>

\* as play_action, without the test of self.done
play_action_unguarded(action) ==
    \/ MoveMade(action)
    \/ MoveRaised(action)

play_action(action) ==
    \/ ~done /\ MoveMade(action)
    \/ ~done /\ MoveRaised(action)
    \/ done /\ AfterEnd(action)

\* as get_reward, with "and" for the exclusive or of line 197
get_reward_and ==
    LET score       == komi + 2 * official_score(board)
        white_wins  == score > 0
        black_wins  == score < 0
        player_wins == \/ white_wins /\ player_color = WHITE
                       \/ black_wins /\ player_color = BLACK
    IN  IF player_wins THEN 1
        ELSE IF white_wins /\ black_wins THEN -1
        ELSE 0

get_reward ==
    LET score       == komi + 2 * official_score(board)
        white_wins  == score > 0
        black_wins  == score < 0
        player_wins == \/ white_wins /\ player_color = WHITE
                       \/ black_wins /\ player_color = BLACK
    IN  IF player_wins THEN 1
        ELSE IF white_wins # black_wins THEN -1
        ELSE 0

GetReward ==
    /\ last' = Call("get_reward", 0, "none", done, get_reward)
    /\ UNCHANGED << board_size, player_color, komi, board, done, history,
                    state, configured, plies, codec, plylog, ply_cap, twin >>

\* str(x) of a non-negative float x held in half points: its whole part, the
\* point and one decimal ("5.5" for 11, "3.0" for 6)
str(x) == ToString(x \div 2) \o (IF x % 2 = 1 THEN ".5" ELSE ".0")

abs(x) == IF x < 0 THEN 0 - x ELSE x

\* as get_result_string, with the komi left out of the score
get_result_string_no_komi ==
    LET score   == 2 * official_score(board)
        players == [w \in BOOLEAN |-> IF w THEN "W" ELSE "B"]
        winner  == players[score > 0]
    IN  IF score = 0
        THEN winner \o "+" \o players[~(score > 0)]
        ELSE winner \o "+" \o str(abs(score))

\* get_result_string(): the winner's label, "+", and the margin
get_result_string ==
    LET score   == komi + 2 * official_score(board)
        players == [w \in BOOLEAN |-> IF w THEN "W" ELSE "B"]
        winner  == players[score > 0]
    IN  IF score = 0
        THEN winner \o "+" \o players[~(score > 0)]
        ELSE winner \o "+" \o str(abs(score))

GetResultString ==
    /\ last' = Call("get_result_string", 0, "none", done, get_result_string)
    /\ UNCHANGED << board_size, player_color, komi, board, done, history,
                    state, configured, plies, codec, plylog, ply_cap, twin >>

\* get_legal_actions(): the engine's legal coordinates for the colour to move,
\* each turned into an action
get_legal_actions(legal_moves) ==
    { _coord_to_action(board, pachi_move) : pachi_move \in legal_moves }

GetLegalActions ==
    /\ \E legal_moves \in get_legal_coords(board, player_color) :
          last' = Call("get_legal_actions", 0, "none", done,
                       get_legal_actions(legal_moves))
    /\ UNCHANGED << board_size, player_color, komi, board, done, history,
                    state, configured, plies, codec, plylog, ply_cap, twin >>

\* a codec call outside a game: the size it is run on, the action converted,
\* the coordinate obtained, the action converted back, the error raised
CodecState(size, phase, action, coord, back, raised) ==
    [size |-> size, phase |-> phase, action |-> action, coord |-> coord,
     back |-> back, raised |-> raised]

CodecIdle == codec = CodecState(0, "idle", 0, 0, 0, "none")

Init == GameInit /\ CodecIdle

Next ==
    \/ \E a \in ActionInputs(board_size) : play_action(a)
    \/ reset
    \/ GetReward

Spec == Init /\ [][Next]_vars

(***************************************************************************)
(* Runs that keep to few moves: the caller plays on the first NarrowPoints *)
(* points only, passes, resigns or submits an action out of range          *)
(***************************************************************************)
NarrowInputs(size) ==
    { a \in ActionInputs(size) : a < NarrowPoints \/ a >= _pass_action(size) }

(***************************************************************************)
(* Short games on boards of the sizes SizedBoards, with valid actions      *)
(***************************************************************************)
SizedInit ==
    /\ \E color \in {BLACK, WHITE}, size \in SizedBoards : Constructed(color, size)
    /\ ply_cap = SizedPlies
    /\ CodecIdle

SizedNext ==
    \/ \E a \in NarrowInputs(board_size) \cap (0 .. _resign_action(board_size)) :
          play_action(a)
    \/ reset
    \/ GetResultString

(***************************************************************************)
(* Two instances: a game, its deep copy, and calls made on either.  The    *)
(* variables hold the instance the caller is calling (the focus), twin.g   *)
(* the fields of the other one.  twin.kind is "copy" when the result of    *)
(* __deepcopy__ is a new object and "self" when it is the original itself. *)
(***************************************************************************)
\* self.__dict__ of the instance in focus
Fields ==
    [ board_size |-> board_size, player_color |-> player_color, komi |-> komi,
      board |-> board, done |-> done, history |-> history, state |-> state,
      configured |-> configured, plies |-> plies, plylog |-> plylog,
      ply_cap |-> ply_cap ]

\* board.clone(): a board of its own with the same position
clone(b) == b

\* deepcopy(v, memo) of a field that is not the board: an equal value of its
\* own
deepcopy(v) == v

\* as __deepcopy__, with the instance itself returned instead of a new one
deepcopy_returns_self == [kind |-> "self", focus |-> "original", g |-> Fields]

\* __deepcopy__(memo): a new instance, its board field the clone of the board
\* and every other field the deep copy of the field
__deepcopy__ ==
    [ kind  |-> "copy",
      focus |-> "original",
      g     |-> [ k \in DOMAIN Fields |->
                    IF k = "board" THEN clone(board) ELSE deepcopy(Fields[k]) ] ]

DeepCopy ==
    /\ twin.kind = "none"
    /\ twin' = __deepcopy__
    /\ last' = Call("__deepcopy__", 0, "none", done, 0)
    /\ UNCHANGED << board_size, player_color, komi, board, done, history,
                    state, configured, plies, codec, plylog, ply_cap >>

\* the fields of the instance that is not in focus
Other == IF twin.kind = "self" THEN Fields ELSE twin.g

\* the caller turns to the other instance
Switch ==
    /\ twin.kind # "none"
    /\ twin' = [twin EXCEPT
                  !.focus = IF @ = "original" THEN "copy" ELSE "original",
                  !.g = IF twin.kind = "self" THEN @ ELSE Fields]
    /\ board_size' = Other.board_size
    /\ player_color' = Other.player_color
    /\ komi' = Other.komi
    /\ board' = Other.board
    /\ done' = Other.done
    /\ history' = Other.history
    /\ state' = Other.state
    /\ configured' = Other.configured
    /\ plies' = Other.plies
    /\ plylog' = Other.plylog
    /\ ply_cap' = Other.ply_cap
    /\ UNCHANGED << last, codec >>

CloneInit ==
    /\ \E color \in {BLACK, WHITE}, size \in BoardSizes : Constructed(color, size)
    /\ ply_cap = ClonePlies
    /\ CodecIdle

CloneNext ==
    \/ \E a \in NarrowInputs(board_size) \cap (0 .. _resign_action(board_size)) :
          play_action(a)
    \/ reset
    \/ DeepCopy
    \/ Switch

SpecClone == CloneInit /\ [][CloneNext]_vars

(***************************************************************************)
(* Long games on the small board: the caller passes, or plays the first    *)
(* point of the board, or the lowest point the engine accepts              *)
(***************************************************************************)
LongInputs ==
    LET legal == { a \in 0 .. (_pass_action(board_size) - 1) :
                     IsValidPlay(board, _action_to_coord(board, a), player_color) }
    IN  {0, _pass_action(board_size)}
          \cup { a \in legal : \A b \in legal : a <= b }

LongInit ==
    /\ \E color \in {BLACK, WHITE}, size \in BoardSizes : Constructed(color, size)
    /\ ply_cap = MaxLongPlies
    /\ CodecIdle

LongNext ==
    \/ \E a \in LongInputs : play_action(a)
    \/ reset

SpecLong == LongInit /\ [][LongNext]_vars

(***************************************************************************)
(* Games in which the caller also queries the reward, the result string    *)
(* and the legal actions, at any time                                      *)
(***************************************************************************)
QueriesNext ==
    \/ \E a \in NarrowInputs(board_size) : play_action(a)
    \/ reset
    \/ GetReward
    \/ GetResultString
    \/ GetLegalActions

SpecQueries == Init /\ [][QueriesNext]_vars

SpecSized == SizedInit /\ [][SizedNext]_vars

(***************************************************************************)
(* The codec on its own, on the board of every size up to MaxCodecSize     *)
(***************************************************************************)
CodecInit ==
    /\ GameInit
    /\ \E n \in 1 .. MaxCodecSize : codec = CodecState(n, "idle", 0, 0, 0, "none")

\* _action_to_coord(board, a) on a board of the size chosen; outside the
\* valid range the engine's ij_to_coord decides (see PlayOutcomes)
ToCoord ==
    /\ codec.phase = "idle"
    /\ \E a \in ActionInputs(codec.size) :
         LET b == CreateBoard(codec.size)
             c == _action_to_coord(b, a)
         IN  \/ codec' = CodecState(codec.size, "coord", a, c, 0, "none")
             \/ /\ a \notin 0 .. _resign_action(codec.size)
                /\ codec' = CodecState(codec.size, "coord", a, 0, 0, "EngineError")
    /\ UNCHANGED game_vars

\* _coord_to_action(board, c) of the coordinate obtained
ToAction ==
    /\ codec.phase = "coord"
    /\ codec.raised = "none"
    /\ codec.action \in 0 .. _resign_action(codec.size)
    /\ codec' = [codec EXCEPT !.phase = "action",
                              !.back = _coord_to_action(CreateBoard(codec.size),
                                                        codec.coord)]
    /\ UNCHANGED game_vars

CodecNext == ToCoord \/ ToAction

SpecCodec == CodecInit /\ [][CodecNext]_vars

(***************************************************************************)
(* Properties                                                              *)
(***************************************************************************)
ValidActions(size) == 0 .. _resign_action(size)

Score == komi + 2 * official_score(board)

\* C1: once done is true, every further play_action, whatever the action,
\* returns normally with done still true and the same StateTensor, and leaves
\* the board, the history buffer and the colour to move as they were.
TerminalMonotonicity ==
    [][ (done /\ last'.op = "play_action") =>
          /\ last'.raised = "none"
          /\ done'
          /\ state' = state
          /\ board' = board
          /\ history' = history
          /\ player_color' = player_color ]_vars

\* a play_action call made on a finished game that has stones on the board
TerminalMonotonicityWitness ==
    /\ done
    /\ last.op = "play_action"
    /\ last.pre_done
    /\ last.action \in 0 .. (_pass_action(board_size) - 1)
    /\ \E c \in Coords(board_size) : board.stones[c] \in {BLACK, WHITE}

\* C2: while the game is in progress, a move the engine rejects ends
\* play_action in IllegalMove, and a call that ends in IllegalMove leaves the
\* board, the history buffer, the colour to move, done and the StateTensor
\* unchanged.
RejectedMoveLeavesState ==
    [][ (~done /\ last'.op = "play_action") =>
          /\ ( /\ last'.action \in ValidActions(board_size)
               /\ ~IsValidPlay(board, _action_to_coord(board, last'.action),
                               player_color) )
             => last'.raised = "IllegalMove"
          /\ last'.raised = "IllegalMove" =>
                /\ board' = board
                /\ history' = history
                /\ player_color' = player_color
                /\ done' = done
                /\ state' = state ]_vars

\* a rejected move of the valid range, in a game with moves already made
RejectedMoveWitness ==
    /\ last.op = "play_action"
    /\ last.raised = "IllegalMove"
    /\ last.action \in ValidActions(board_size)
    /\ ~done
    /\ plies >= 2

\* C3: an action outside [0, board_size^2 + 1] submitted to play_action fails
\* with InvalidAction.
OutOfRangeIsInvalidAction ==
    (last.op = "play_action" /\ last.action \notin ValidActions(board_size))
        => last.raised = "InvalidAction"

\* C4: on a finished game get_reward() is +1 when the score favours the
\* colour the environment was constructed with and -1 when it favours the
\* other colour, however many plies were played.
RewardSignLaw ==
    (done /\ last.op = "get_reward") =>
        LET favours == IF configured = WHITE THEN Score > 0 ELSE Score < 0
            against == IF configured = WHITE THEN Score < 0 ELSE Score > 0
        IN  /\ favours => last.ret = 1
            /\ against => last.ret = -1

\* C5: get_reward() returns 0 exactly when komi + area score is 0, and +1 or
\* -1 otherwise.
RewardZeroIffTie ==
    last.op = "get_reward" =>
        /\ last.ret \in {-1, 0, 1}
        /\ last.ret = 0 <=> Score = 0

\* get_reward() on a finished game that is a tie with stones on the board
RewardZeroIffTieWitness ==
    /\ last.op = "get_reward"
    /\ done
    /\ last.ret = 0
    /\ \E c \in Coords(board_size) : board.stones[c] = BLACK
    /\ \E c \in Coords(board_size) : board.stones[c] = WHITE

\* C6: every action of the valid range converted to a coordinate and back is
\* itself; board_size^2 goes to the PASS sentinel and board_size^2 + 1 to
\* RESIGN; no other valid action has the same coordinate.
CodecRoundTrip ==
    (codec.phase \in {"coord", "action"} /\ codec.action \in ValidActions(codec.size)) =>
        /\ codec.raised = "none"
        /\ codec.phase = "action" => codec.back = codec.action
        /\ codec.action = codec.size * codec.size <=> codec.coord = PASS_COORD
        /\ codec.action = codec.size * codec.size + 1 <=> codec.coord = RESIGN_COORD
        /\ \A a \in ValidActions(codec.size) \ {codec.action} :
              _action_to_coord(CreateBoard(codec.size), a) # codec.coord

\* a point off the first row and off the diagonal converted there and back
CodecRoundTripWitness ==
    /\ codec.phase = "action"
    /\ codec.size >= 3
    /\ codec.action \in codec.size .. (codec.size * codec.size - 1)
    /\ codec.action \div codec.size # codec.action % codec.size
    /\ OnBoard(codec.size, codec.coord)

\* C7: the history buffer always holds 2 * HISTORY planes and the StateTensor
\* 2 * HISTORY + 1.
DepthInvariant ==
    /\ DOMAIN history = 1 .. (2 * HISTORY)
    /\ DOMAIN state = 1 .. (2 * HISTORY + 1)

\* a rejected move after several accepted ones
DepthInvariantWitness ==
    /\ plies >= 3
    /\ last.op = "play_action"
    /\ last.raised # "none"

\* C8: after reset and after every play_action that returns, the StateTensor
\* is the history planes followed by a plane filled with the code of the
\* colour to move (0 black, 1 white).
StateIsHistoryPlusColor ==
    (last.op \in {"reset", "play_action"} /\ last.raised = "none") =>
        state = history \o << [ij \in Cells(board_size) |->
                                  IF player_color = BLACK THEN 0 ELSE 1] >>

\* C9: a successful move puts the mover's occupancy plane, as on the board
\* after the move, in front, moves every plane but the last one place back,
\* and drops the last.
RingRotation ==
    [][ (~done /\ last'.op = "play_action" /\ last'.raised = "none") =>
          /\ Len(history') = 2 * HISTORY
          /\ history'[1] = OccupancyOf(board', player_color)
          /\ \A i \in 0 .. (2 * HISTORY - 2) : history'[i + 2] = history[i + 1] ]_vars

\* a successful move after which the three newest planes all hold stones
RingRotationWitness ==
    /\ last.op = "play_action"
    /\ last.raised = "none"
    /\ ~last.pre_done
    /\ \A k \in 1 .. 3 : \E ij \in Cells(board_size) : history[k][ij] = 1

\* C10: the colour to move changes to the other colour with every move
\* accepted while the game is in progress, and stays on a rejected move and
\* on a play_action made after the end.
ColorAlternates ==
    [][ last'.op = "play_action" =>
          IF ~done /\ last'.raised = "none"
          THEN \/ player_color = BLACK /\ player_color' = WHITE
               \/ player_color = WHITE /\ player_color' = BLACK
          ELSE player_color' = player_color ]_vars

\* an accepted move that handed the turn back to the colour that began
ColorAlternatesWitness ==
    /\ last.op = "play_action"
    /\ last.raised = "none"
    /\ ~last.pre_done
    /\ plies = 2
    /\ player_color = configured

\* the komi the specification gives for a board size, in half points
KomiTable(size) ==
    IF size \in 14 .. 19 THEN 15 ELSE IF size \in 9 .. 13 THEN 11 ELSE 0

\* C11: komi depends on the board size only: 7.5 for sizes 14..19, 5.5 for
\* sizes 9..13 and 0 for every other size; it has that value after reset and
\* keeps it through every sequence of play_action calls.
KomiBySize ==
    /\ \A size \in 1 .. MaxKomiSize : _komi(size) = KomiTable(size)
    /\ _komi(9) = 11 /\ _komi(13) = 11 /\ _komi(14) = 15 /\ _komi(19) = 15
    /\ _komi(5) = 0
    /\ komi = KomiTable(board_size)

\* a size-20 board, where the komi is 0 again, after a reset and two plies
KomiBySizeWitness ==
    /\ board_size = 20
    /\ komi = 0
    /\ plies = SizedPlies
    /\ last.op = "play_action"
    /\ last.raised = "none"
    /\ board.moves = plies

\* C12: on a size-9 board freshly reset, the first PASS (action 81) returns
\* with done false, the second PASS returns with done true, and
\* get_result_string() is then W+ or B+ followed by the margin 5.5.
TwoPassScenario ==
    [][ /\ ( /\ board_size = 9
              /\ last'.op = "play_action"
              /\ last'.action = 81
              /\ last'.action = _pass_action(board_size) ) =>
              /\ board = CreateBoard(9) =>
                     /\ last'.raised = "none"
                     /\ ~done'
              /\ board = Play(CreateBoard(9), PASS_COORD, player_color) =>
                     /\ last'.raised = "none"
                     /\ done'
        /\ ( /\ board_size = 9
              /\ last'.op = "get_result_string"
              /\ \E first \in {BLACK, WHITE} :
                    board' = Play(Play(CreateBoard(9), PASS_COORD, first),
                                  PASS_COORD, stone_other(first)) ) =>
              /\ last'.raised = "none"
              /\ last'.ret \in { "W+5.5", "B+5.5" }
              /\ str(abs(komi')) = "5.5"
              /\ abs(komi') = 11 ]_vars

\* get_result_string() called after the two passes on the size-9 board
TwoPassScenarioWitness ==
    /\ board_size = 9
    /\ board = Play(Play(CreateBoard(9), PASS_COORD, BLACK), PASS_COORD, WHITE)
    /\ done
    /\ plies = 2
    /\ last.op = "get_result_string"
    /\ last.ret = "W+5.5"

\* C13: get_reward() or get_result_string() called while the game is not
\* terminal, and get_legal_actions() called after it is terminal, end in an
\* InvalidState error instead of returning a value.
QueryOutOfStateIsInvalidState ==
    ( \/ last.op \in {"get_reward", "get_result_string"} /\ ~last.pre_done
      \/ last.op = "get_legal_actions" /\ last.pre_done )
    => last.raised = "InvalidState"

\* C16: get_result_string() is the favoured side's label, "+" and the margin
\* abs(score): the label is W exactly when score > 0 and B exactly when
\* score < 0, and it names the side get_reward() treats as the winner
\* (checked on finished games).
ResultNamesFavoredSide ==
    (last.op = "get_result_string" /\ last.pre_done) =>
        \E label \in {"W", "B"} :
            /\ last.ret = label \o "+" \o str(abs(Score))
            /\ label = "W" <=> Score > 0
            /\ label = "B" <=> Score < 0
            /\ label = "W" <=> get_reward = (IF player_color = WHITE THEN 1 ELSE -1)
            /\ label = "B" <=> get_reward = (IF player_color = BLACK THEN 1 ELSE -1)

\* what C14 compares of an instance
CloneView(g) ==
    [ board |-> g.board, history |-> g.history, player_color |-> g.player_color,
      done |-> g.done, state |-> g.state ]

\* C14: a deep copy starts equal to the original in board, history, colour to
\* move, done flag and StateTensor, and afterwards a play_action or reset call
\* on one of the two instances leaves each of those fields of the other
\* instance unchanged.
CloneIndependence ==
    [][ /\ (twin.kind = "none" /\ twin'.kind # "none") =>
              /\ CloneView(Other') = CloneView(Fields)
              /\ CloneView(Fields') = CloneView(Fields)
        /\ (twin.kind # "none" /\ twin'.focus = twin.focus) =>
              CloneView(Other') = CloneView(Other) ]_vars

\* the two instances after moves on both: the copy was played on, then the
\* original, and they differ in every compared field
CloneIndependenceWitness ==
    /\ twin.kind = "copy"
    /\ twin.focus = "original"
    /\ last.op = "play_action"
    /\ last.raised = "none"
    /\ ~last.pre_done
    /\ plies > 0
    /\ twin.g.plies > 0
    /\ \A k \in DOMAIN CloneView(Fields) :
          CloneView(Fields)[k] # CloneView(twin.g)[k]

\* C15: reset() called in any reachable state, in progress or finished,
\* leaves done false, the board fresh and empty, the 2H history planes all
\* zero and the komi recomputed from the board size, and returns an all-zero
\* StateTensor.
ResetPostcondition ==
    last.op = "reset" =>
        /\ last.raised = "none"
        /\ ~done
        /\ board = CreateBoard(board_size)
        /\ \A c \in Coords(board_size) : board.stones[c] \in {S_NONE, S_OFFBOARD}
        /\ Len(history) = 2 * HISTORY
        /\ \A k \in 1 .. Len(history) : \A ij \in Cells(board_size) :
              history[k][ij] = 0
        /\ komi = KomiTable(board_size)
        /\ Len(last.ret) = 2 * HISTORY + 1
        /\ \A k \in 1 .. Len(last.ret) : \A ij \in Cells(board_size) :
              last.ret[k][ij] = 0
        /\ state = last.ret

\* reset() called on a finished game
ResetPostconditionWitness ==
    /\ last.op = "reset"
    /\ last.pre_done
    /\ ~done
    /\ plies = 0

\* C17: after reset and after every play_action call that returns, done
\* equals the engine's terminal predicate for the current board, and done
\* goes from true back to false only through reset().
DoneIsEngineTerminal ==
    [][ /\ (last'.op \in {"reset", "play_action"} /\ last'.raised = "none") =>
              done' = is_terminal(board')
        /\ (done /\ ~done') => (last'.op = "reset" /\ board' = CreateBoard(board_size)) ]_vars

\* a game ended by the engine at the second pass, a stone on the board
DoneIsEngineTerminalWitness ==
    /\ done
    /\ is_terminal(board)
    /\ last.op = "play_action"
    /\ last.raised = "none"
    /\ ~last.pre_done
    /\ last.action = _pass_action(board_size)
    /\ \E c \in Coords(board_size) : board.stones[c] \in {BLACK, WHITE}

\* C18: reset() restores the complete initial state: after any number of
\* plies, odd or even, followed by reset(), the colour to move is the colour
\* that was to move immediately after construction.
ResetRestoresColor ==
    last.op = "reset" => player_color = configured

\* C19: the first ply of every game is played as BLACK whichever player
\* colour the environment was constructed with, so that WHITE, the side that
\* receives komi, is the second to move.
FirstPlyIsBlack ==
    Len(plylog) >= 1 =>
        /\ plylog[1].color = BLACK
        /\ Len(plylog) >= 2 => plylog[2].color = WHITE

\* C20: after k accepted plies since the last reset, history plane i, for
\* every i < min(k, 2H), is the occupancy of the player who made ply k-i as
\* it was immediately after that ply, every plane i >= k is all zeros, and
\* consecutive planes of plies belong to alternating colours.
HistoryIsPlyLog ==
    LET k == Len(plylog)
    IN  /\ k = plies
        /\ Len(history) = 2 * HISTORY
        /\ \A i \in 0 .. (2 * HISTORY - 1) :
              IF i < k
              THEN history[i + 1] = plylog[k - i].plane
              ELSE \A ij \in Cells(board_size) : history[i + 1][ij] = 0
        /\ \A i \in 0 .. (2 * HISTORY - 2) :
              i + 1 < k => plylog[k - i].color # plylog[k - i - 1].color

\* more plies than the history holds, with stones captured on the way: the
\* oldest plies have left the buffer and the planes kept are not all alike
HistoryIsPlyLogWitness ==
    /\ plies > 2 * HISTORY
    /\ Len(plylog) = plies
    /\ last.op = "play_action"
    /\ last.raised = "none"
    /\ \E ij \in Cells(board_size) : history[1][ij] = 1
    /\ \E i \in 1 .. (2 * HISTORY - 2) :
          \E ij \in Cells(board_size) : history[i][ij] = 0 /\ history[i + 2][ij] = 1
====
